---- MODULE Spec2Model ----
(***************************************************************************)
(* K-means++ colour image quantization (src/ciq.c).                        *)
(*                                                                         *)
(* The model follows one run of main(): ciq_quanization() loads the image  *)
(* (ciq_init), seeds K centroids (ciq_init_centroids), iterates the        *)
(* assigner (ciq_clustering) and the updater (ciq_update_centroids) inside *)
(* ciq_quantize(), writes the output image and the palette (ciq_remap) and *)
(* exits.  C arrays are functions over 0..n-1, so that cluster labels and  *)
(* centroid indices are the numbers the program uses.                      *)
(***************************************************************************)
EXTENDS Integers, Sequences, FiniteSets, TLC

\* ------------------------------------------------------------------------
\* Program constants
\* ------------------------------------------------------------------------
MAX_ITERS == 100

EPSILON == 8

\* ------------------------------------------------------------------------
\* Bounds of the model
\* ------------------------------------------------------------------------
\* largest number of pixels of the exhaustively enumerated images
MaxPoints == 3

\* largest number of clusters asked for
MaxK == 3

\* width and height of the large single-colour image
BigWidth == 7

\* ------------------------------------------------------------------------
\* Colours, pixels, images
\* ------------------------------------------------------------------------
RGB(r, g, b) == [r |-> r, g |-> g, b |-> b]

\* typedef struct { int r, g, b; int cluster; } Point;
Point(r, g, b, cluster) == [r |-> r, g |-> g, b |-> b, cluster |-> cluster]

\* the colour of a point, as the (Centroid){r, g, b} literals copy it
Colour(p) == RGB(p.r, p.g, p.b)

\* pixel colours of the exhaustively enumerated images
Colours == {RGB(0, 0, 0), RGB(1, 0, 0), RGB(3, 3, 0), RGB(10, 0, 0)}

SmallImages == UNION { [0 .. n - 1 -> Colours] : n \in 1 .. MaxPoints }

\* a BigWidth x BigWidth image of the single colour (1,1,1)
UniformImage == [j \in 0 .. BigWidth * BigWidth - 1 |-> RGB(1, 1, 1)]

\* five pixels on which cluster 0 loses all its points in the second pass
DriftImage ==
    [j \in 0 .. 4 |->
        CASE j = 0 -> RGB(2, 1, 0)
          [] j = 1 -> RGB(3, 0, 0)
          [] j = 2 -> RGB(3, 5, 0)
          [] j = 3 -> RGB(1, 6, 0)
          [] OTHER -> RGB(1, 5, 0)]

Images == SmallImages \cup {UniformImage, DriftImage}

\* Values an uninitialized or out-of-bounds int triple may hold.
Garbage == {RGB(0, 0, 0), RGB(300, 7, 0), RGB(-40, 2, 2)}

\* (unsigned char) x
Byte(x) == x % 256

ByteRGB(c) == RGB(Byte(c.r), Byte(c.g), Byte(c.b))

\* ------------------------------------------------------------------------
\* Arithmetic helpers
\* ------------------------------------------------------------------------
RECURSIVE Pow2(_)
Pow2(e) == IF e <= 0 THEN 1 ELSE 2 * Pow2(e - 1)

\* number of binary digits of x >= 0
RECURSIVE BitLen(_)
BitLen(x) == IF x <= 0 THEN 0 ELSE 1 + BitLen(x \div 2)

\* 2^e mod n
RECURSIVE Pow2Mod(_, _)
Pow2Mod(e, n) == IF e <= 0 THEN 1 % n ELSE (2 * Pow2Mod(e - 1, n)) % n

\* f[0] + ... + f[n]
RECURSIVE SumTo(_, _)
SumTo(f, n) == IF n < 0 THEN 0 ELSE f[n] + SumTo(f, n - 1)

\* long ciq_distance(Point p1, Centroid p2)
ciq_distance(p1, p2) ==
    LET dr == p1.r - p2.r
        dg == p1.g - p2.g
        db == p1.b - p2.b
    IN  dr * dr + dg * dg + db * db

\* ------------------------------------------------------------------------
\* State
\* ------------------------------------------------------------------------
VARIABLES
    pc,           \* position in main() / ciq_quanization() / ciq_quantize()
    input,        \* pixel triples of the input file
    K,            \* ctx->K
    points,       \* ctx->points
    centroids,    \* ctx->centroids
    distances,    \* the seeder's scratch buffer
    i,            \* loop index of ciq_init_centroids
    iter,         \* loop index of ciq_quantize
    changed,      \* last value returned by ciq_update_centroids
    quantized,    \* value returned by ciq_quantize: "unset", "true", "false"
    outfile,      \* pixel triples written to the output image (<<>>: no file)
    palfile,      \* triples written to palette.pal (<<>>: no file)
    ret           \* exit code of main (-1 while running)

vars == <<pc, input, K, points, centroids, distances, i, iter, changed,
          quantized, outfile, palfile, ret>>

Init ==
    /\ pc = "init"
    /\ input \in Images
    /\ K \in 1 .. MaxK
    /\ points = <<>>
    /\ centroids = <<>>
    /\ distances = <<>>
    /\ i = 0
    /\ iter = 0
    /\ changed = FALSE
    /\ quantized = "unset"
    /\ outfile = <<>>
    /\ palfile = <<>>
    /\ ret = -1

\* ------------------------------------------------------------------------
\* ciq_init
\* ------------------------------------------------------------------------
\* the image is read: every pixel becomes a Point with cluster -1, the
\* centroid array is zeroed (input is the pixel data as fread delivers it,
\* after the header that fscanf has consumed)
CiqInit ==
    /\ pc = "init"
    /\ points' = [j \in DOMAIN input |->
                     Point(input[j].r, input[j].g, input[j].b, -1)]
    /\ centroids' = [c \in 0 .. K - 1 |-> RGB(0, 0, 0)]
    /\ pc' = "quantize"
    /\ UNCHANGED <<input, K, distances, i, iter, changed, quantized,
                   outfile, palfile, ret>>

\* allocation, fopen or the header check fails: ciq_quanization returns
\* false and main exits with 1
CiqInitFail ==
    /\ pc = "init"
    /\ pc' = "exit"
    /\ ret' = 1
    /\ UNCHANGED <<input, K, points, centroids, distances, i, iter, changed,
                   quantized, outfile, palfile>>

\* ------------------------------------------------------------------------
\* ciq_init_centroids
\* ------------------------------------------------------------------------
\* distances[j] of the seeder's first inner loop, for centroid index idx
SeedDistances(pts, cs, idx) ==
    [j \in DOMAIN pts |-> ciq_distance(pts[j], cs[idx - 1])]

\* the second inner loop: the first j whose running sum reaches
\* random_choice, or -1 when the scan ends without a break
ScanChoice(d, random_choice) ==
    LET hit == { j \in DOMAIN d : SumTo(d, j) >= random_choice }
    IN  IF hit = {} THEN -1
        ELSE CHOOSE j \in hit : \A t \in hit : j <= t

\* a draw that can exceed the total: the scan then ends without a break
RandomChoicesPastTotal(total_distance) == 0 .. total_distance + 1

\* the values ((double) rand() / RAND_MAX) * total_distance can take
RandomChoices(total_distance) == 0 .. total_distance

\* malloc of the scratch buffer fails: ciq_init_centroids returns false,
\* ciq_quantize returns false
SeedAllocFail ==
    /\ pc = "quantize"
    /\ quantized' = "false"
    /\ pc' = "remap"
    /\ UNCHANGED <<input, K, points, centroids, distances, i, iter, changed,
                   outfile, palfile, ret>>

\* the first centroid: the colour of point rand() % size
SeedFirst ==
    /\ pc = "quantize"
    /\ \E chosen_index \in DOMAIN points :
          centroids' = [centroids EXCEPT ![0] = Colour(points[chosen_index])]
    /\ i' = 1
    /\ pc' = "seeding"
    /\ UNCHANGED <<input, K, points, distances, iter, changed, quantized,
                   outfile, palfile, ret>>

\* one pass of the loop over i = 1 .. K-1
SeedNext ==
    /\ pc = "seeding"
    /\ i < K
    /\ LET d == SeedDistances(points, centroids, i)
           total_distance == SumTo(d, Cardinality(DOMAIN points) - 1)
       IN  /\ distances' = d
           /\ \E j \in { ScanChoice(d, random_choice) :
                            random_choice \in RandomChoices(total_distance) } :
                 centroids' =
                    IF j = -1 THEN centroids
                    ELSE [centroids EXCEPT ![i] = Colour(points[j])]
    /\ i' = i + 1
    /\ UNCHANGED <<pc, input, K, points, iter, changed, quantized,
                   outfile, palfile, ret>>

\* the loop ends: the buffer is freed, ciq_init_centroids returns true and
\* ciq_quantize enters its loop with i = 0
SeedDone ==
    /\ pc = "seeding"
    /\ i >= K
    /\ iter' = 0
    /\ pc' = "cluster"
    /\ UNCHANGED <<input, K, points, centroids, distances, i, changed,
                   quantized, outfile, palfile, ret>>

\* ------------------------------------------------------------------------
\* ciq_clustering
\* ------------------------------------------------------------------------
\* the inner loop over j = from .. k-1 for one point: best is the label so
\* far, mindist its distance; a later centroid wins only when strictly closer
RECURSIVE NearestFrom(_, _, _, _, _, _)
NearestFrom(p, cs, k, from, best, mindist) ==
    IF from >= k THEN best
    ELSE LET curdist == ciq_distance(p, cs[from])
         IN  IF curdist < mindist
             THEN NearestFrom(p, cs, k, from + 1, from, curdist)
             ELSE NearestFrom(p, cs, k, from + 1, best, mindist)

\* the inner loop with <= for <: among equally near centroids the last wins
RECURSIVE NearestFromLast(_, _, _, _, _, _)
NearestFromLast(p, cs, k, from, best, mindist) ==
    IF from >= k THEN best
    ELSE LET curdist == ciq_distance(p, cs[from])
         IN  IF curdist <= mindist
             THEN NearestFromLast(p, cs, k, from + 1, from, curdist)
             ELSE NearestFromLast(p, cs, k, from + 1, best, mindist)

NearestTiesLast(p, cs, k) ==
    NearestFromLast(p, cs, k, 1, 0, ciq_distance(p, cs[0]))

\* the label the assigner gives point p
Nearest(p, cs, k) == NearestFrom(p, cs, k, 1, 0, ciq_distance(p, cs[0]))

ciq_clustering(pts, cs, k) ==
    [j \in DOMAIN pts |-> [pts[j] EXCEPT !.cluster = Nearest(pts[j], cs, k)]]

Clustering ==
    /\ pc = "cluster"
    /\ points' = ciq_clustering(points, centroids, K)
    /\ pc' = "update"
    /\ UNCHANGED <<input, K, centroids, distances, i, iter, changed,
                   quantized, outfile, palfile, ret>>

\* ------------------------------------------------------------------------
\* ciq_update_centroids
\* ------------------------------------------------------------------------
cluster_size(pts, c) == Cardinality({ j \in DOMAIN pts : pts[j].cluster = c })

sum_r(pts, c) ==
    SumTo([j \in DOMAIN pts |-> IF pts[j].cluster = c THEN pts[j].r ELSE 0],
          Cardinality(DOMAIN pts) - 1)

sum_g(pts, c) ==
    SumTo([j \in DOMAIN pts |-> IF pts[j].cluster = c THEN pts[j].g ELSE 0],
          Cardinality(DOMAIN pts) - 1)

sum_b(pts, c) ==
    SumTo([j \in DOMAIN pts |-> IF pts[j].cluster = c THEN pts[j].b ELSE 0],
          Cardinality(DOMAIN pts) - 1)

(***************************************************************************)
(* (int) (w * sum) with w = 1.0 / n, in IEEE-754 double arithmetic         *)
(* (53-bit significand, round to nearest, ties to even), for n >= 1 and    *)
(* 0 <= sum < 2^31.                                                        *)
(*                                                                         *)
(* w is 2^T / n rounded to an integer m, scaled by 2^-T, where             *)
(* T = 52 + BitLen(n-1) makes m a 53-bit number; with rem = 2^T mod n the  *)
(* division rounds down (m*n = 2^T - rem) when 2*rem < n and up otherwise. *)
(* The product sum*m*2^-T differs from sum/n by less than 2^-34, which can *)
(* move its integer part only when n divides sum and w was rounded down:   *)
(* then the exact product is q - q*rem*2^-T with q = sum/n, just below q,  *)
(* and rounding it to 53 bits gives q exactly when the deficit q*rem*2^-T  *)
(* is at most half a unit in the last place below q, that is               *)
(* q*rem <= 2^(BitLen(n-1) + BitLen(q-1) - 2); otherwise the product stays *)
(* below q and the conversion to int truncates it to q - 1.                *)
(***************************************************************************)
ScaleSum(n, sum) ==
    LET q == sum \div n
        rem == Pow2Mod(52 + BitLen(n - 1), n)
    IN  IF sum % n # 0 \/ sum = 0 \/ rem = 0 \/ 2 * rem > n
        THEN q
        ELSE IF q * rem <= Pow2(BitLen(n - 1) + BitLen(q - 1) - 2)
             THEN q
             ELSE q - 1

\* the local variable new after the pass of the update loop for cluster
\* idx: the scaled sums of a non-empty cluster; for an empty cluster what
\* the pass before left in it, and before the first pass what the
\* uninitialized variable held at entry (uninit)
RECURSIVE NewAfter(_, _, _)
NewAfter(pts, idx, uninit) ==
    IF cluster_size(pts, idx) > 0
    THEN RGB(ScaleSum(cluster_size(pts, idx), sum_r(pts, idx)),
             ScaleSum(cluster_size(pts, idx), sum_g(pts, idx)),
             ScaleSum(cluster_size(pts, idx), sum_b(pts, idx)))
    ELSE IF idx = 0 THEN uninit
         ELSE NewAfter(pts, idx - 1, uninit)

\* the update loop: centroid c is compared with new as the pass for c left
\* it, and then overwritten with it
ciq_update_centroids(pts, cs, k, uninit) ==
    [centroids |-> [c \in 0 .. k - 1 |-> NewAfter(pts, c, uninit)],
     changed |-> \E c \in 0 .. k - 1 :
                    ciq_distance(cs[c], NewAfter(pts, c, uninit)) > EPSILON]

\* ------------------------------------------------------------------------
\* ciq_quantize: the loop for (i = 0; i < MAX_ITERS; i++)
\* ------------------------------------------------------------------------
\* a loop bound of i <= MAX_ITERS: one pass too many
LoopExitsLate(chg, it) == ~chg \/ it + 1 > MAX_ITERS

\* whether the loop is left after the pass with index it, whose updater
\* returned chg: by the break, or by i++ reaching MAX_ITERS
LoopExits(chg, it) == ~chg \/ it + 1 >= MAX_ITERS

\* the updater runs, then the loop either breaks, goes on or runs out
UpdateCentroids ==
    /\ pc = "update"
    /\ \E uninit \in Garbage :
          \E u \in {ciq_update_centroids(points, centroids, K, uninit)} :
              /\ centroids' = u.centroids
              /\ changed' = u.changed
              /\ iter' = IF u.changed THEN iter + 1 ELSE iter
              /\ pc' = IF LoopExits(u.changed, iter) THEN "remap"
                       ELSE "cluster"
              /\ quantized' = IF LoopExits(u.changed, iter) THEN "true"
                              ELSE quantized
    /\ UNCHANGED <<input, K, points, distances, i, outfile, palfile, ret>>

\* ------------------------------------------------------------------------
\* ciq_remap, and the end of ciq_quanization and main
\* ------------------------------------------------------------------------
\* the triples written to the output image; oob is what the read of
\* ctx->centroids[-1] yields for a point that was never labelled
RemapPixels(pts, cs, oob) ==
    [j \in DOMAIN pts |->
        ByteRGB(IF pts[j].cluster \in DOMAIN cs THEN cs[pts[j].cluster]
                ELSE oob)]

\* the palette written from the last centroid to the first
PaletteBytesReversed(cs, k) == [c \in 0 .. k - 1 |-> ByteRGB(cs[k - 1 - c])]

\* the triples written to palette.pal
PaletteBytes(cs, k) == [c \in 0 .. k - 1 |-> ByteRGB(cs[c])]

\* both files are written; ciq_quanization returns true, main returns 0
Remap ==
    /\ pc = "remap"
    /\ \E oob \in Garbage : outfile' = RemapPixels(points, centroids, oob)
    /\ palfile' = PaletteBytes(centroids, K)
    /\ pc' = "exit"
    /\ ret' = 0
    /\ UNCHANGED <<input, K, points, centroids, distances, i, iter, changed,
                   quantized>>

\* the output file cannot be created: ciq_remap returns false at once; its
\* result is only logged
RemapOutputFail ==
    /\ pc = "remap"
    /\ pc' = "exit"
    /\ ret' = 0
    /\ UNCHANGED <<input, K, points, centroids, distances, i, iter, changed,
                   quantized, outfile, palfile>>

\* palette.pal cannot be created: the output image is already written
RemapPaletteFail ==
    /\ pc = "remap"
    /\ \E oob \in Garbage : outfile' = RemapPixels(points, centroids, oob)
    /\ pc' = "exit"
    /\ ret' = 0
    /\ UNCHANGED <<input, K, points, centroids, distances, i, iter, changed,
                   quantized, palfile>>

\* ------------------------------------------------------------------------
\* Specifications
\* ------------------------------------------------------------------------
Next ==
    \/ CiqInit
    \/ CiqInitFail
    \/ SeedAllocFail
    \/ SeedFirst
    \/ SeedNext
    \/ SeedDone
    \/ Clustering
    \/ UpdateCentroids
    \/ Remap
    \/ RemapOutputFail
    \/ RemapPaletteFail

Spec == Init /\ [][Next]_vars

\* ------------------------------------------------------------------------
\* Properties
\* ------------------------------------------------------------------------
\* the least squared distance from p to the centroids 0 .. n-1
MinDistance(p, cs, n) ==
    LET ds == { ciq_distance(p, cs[c]) : c \in 0 .. n - 1 }
    IN  CHOOSE d \in ds : \A e \in ds : d <= e

\* label l is the lowest index among the centroids nearest to p
LowestNearest(p, cs, k, l) ==
    /\ l \in 0 .. k - 1
    /\ \A c \in 0 .. k - 1 : ciq_distance(p, cs[l]) <= ciq_distance(p, cs[c])
    /\ \A c \in 0 .. l - 1 : ciq_distance(p, cs[l]) < ciq_distance(p, cs[c])

IsPointColour(c, pts) == \E j \in DOMAIN pts : c = Colour(pts[j])

\* C1: when the seeder samples a centroid, the weight of every point is its
\* squared distance to the nearest of all the centroids chosen before (the
\* state after sampling centroid i-1 keeps the weights in distances).
C1_NearestOfAll ==
    (pc = "seeding" /\ i >= 2) =>
        \A j \in DOMAIN points :
            distances[j] = MinDistance(points[j], centroids, i - 1)

\* C2: the updater leaves the centroid of every empty cluster as it was, and
\* reports a change only when the centroid of a non-empty cluster moved by
\* more than EPSILON.
C2_EmptyClusterRetained ==
    [][pc = "update" =>
          /\ \A c \in 0 .. K - 1 :
                cluster_size(points, c) = 0 => centroids'[c] = centroids[c]
          /\ changed' =>
                \E c \in 0 .. K - 1 :
                    /\ cluster_size(points, c) > 0
                    /\ ciq_distance(centroids[c], centroids'[c]) > EPSILON
      ]_vars

\* C3: when the seeder fails, the run ends with no output image, no palette
\* file and exit code 1.
C3_SeederFailureAborts ==
    (pc = "exit" /\ quantized = "false") =>
        /\ outfile = <<>>
        /\ palfile = <<>>
        /\ ret = 1

\* C4: an assigner pass gives every point the lowest index among its nearest
\* centroids, a label in 0 .. K-1, and changes neither a centroid nor a
\* point's colour.
C4_Assigner ==
    [][pc = "cluster" =>
          /\ DOMAIN points' = DOMAIN points
          /\ \A j \in DOMAIN points :
                /\ LowestNearest(points[j], centroids, K, points'[j].cluster)
                /\ Colour(points'[j]) = Colour(points[j])
          /\ centroids' = centroids
      ]_vars

\* a pass has just labelled a point with a label above 0, and resolved a tie
\* between two centroids in favour of the lower index
C4_Witness ==
    /\ pc = "update"
    /\ \E j \in DOMAIN points : points[j].cluster > 0
    /\ \E j \in DOMAIN points : \E c \in 0 .. K - 1 :
          /\ c > points[j].cluster
          /\ ciq_distance(points[j], centroids[c]) =
                ciq_distance(points[j], centroids[points[j].cluster])

\* the number of steps the loop of ciq_quantize can still take, at most
LoopVariant ==
    2 * (MAX_ITERS - iter) + (IF pc = "cluster" THEN 1 ELSE 0)

\* C5: after seeding, every iteration is an assigner pass on the centroids
\* as they are, followed by an updater pass; the loop is left at the first
\* pass whose updater reports no change, else after MAX_ITERS passes; it
\* terminates (every step inside it lowers LoopVariant, which stays above
\* 0); and when it is left ciq_quantize returns true and every point has a
\* label in 0 .. K-1.
C5_Orchestrator ==
    /\ [](pc \in {"cluster", "update"} => (iter < MAX_ITERS /\ LoopVariant > 0))
    /\ [][/\ pc = "cluster" => (pc' = "update" /\ centroids' = centroids)
          /\ pc = "update" =>
                /\ ~changed' => (pc' = "remap" /\ iter' = iter)
                /\ (changed' /\ iter + 1 < MAX_ITERS) =>
                      (pc' = "cluster" /\ iter' = iter + 1)
                /\ (changed' /\ iter + 1 >= MAX_ITERS) =>
                      (pc' = "remap" /\ iter' = MAX_ITERS)
          /\ (pc \in {"cluster", "update"} /\ pc' \in {"cluster", "update"})
                => LoopVariant' < LoopVariant
          /\ (pc \in {"cluster", "update"} /\ pc' = "remap") =>
                /\ quantized' = "true"
                /\ \A j \in DOMAIN points' :
                      points'[j].cluster \in 0 .. K - 1
         ]_vars

\* the loop ran out: MAX_ITERS passes, the last one still reporting a change
C5_Witness ==
    /\ pc = "remap"
    /\ quantized = "true"
    /\ changed
    /\ iter = MAX_ITERS

\* the image has at most K distinct colours
AlreadyQuantized ==
    Cardinality({ input[j] : j \in DOMAIN input }) <= K

\* C6: on an image with at most K distinct colours, the second pass of the
\* loop relabels no point and changes no centroid.
C6_SecondPassStable ==
    [][(AlreadyQuantized /\ iter = 1) =>
          /\ pc = "cluster" => points' = points
          /\ pc = "update" => centroids' = centroids
      ]_vars

\* C7: when ciq_quantize has returned, every point's label is the index of
\* a final centroid at least squared distance from the point.
C7_FinalLabelsNearest ==
    (pc = "remap" /\ quantized = "true") =>
        \A j \in DOMAIN points : \A c \in 0 .. K - 1 :
            ciq_distance(points[j], centroids[points[j].cluster])
                <= ciq_distance(points[j], centroids[c])

\* C8: after a run whose quantization succeeded, a written palette has K
\* entries, entry c being centroid c, and every pixel of a written output
\* image is the palette entry at its point's label.
C8_PaletteAndPixels ==
    (pc = "exit" /\ quantized = "true" /\ palfile # <<>>) =>
        /\ DOMAIN palfile = 0 .. K - 1
        /\ \A c \in 0 .. K - 1 : palfile[c] = ByteRGB(centroids[c])
        /\ outfile # <<>>
        /\ DOMAIN outfile = DOMAIN points
        /\ \A j \in DOMAIN points : outfile[j] = palfile[points[j].cluster]

\* both files are written, two pixels differ in the output, and a palette
\* entry comes from a centroid outside the range of a byte
C8_Witness ==
    /\ pc = "exit"
    /\ quantized = "true"
    /\ palfile # <<>>
    /\ \E j, l \in DOMAIN outfile : outfile[j] # outfile[l]
    /\ \E c \in 0 .. K - 1 : palfile[c] # centroids[c]

\* per-channel mean of the points, truncated to an integer
TruncatedMean(pts) ==
    LET n == Cardinality(DOMAIN pts)
    IN  RGB(SumTo([j \in DOMAIN pts |-> pts[j].r], n - 1) \div n,
            SumTo([j \in DOMAIN pts |-> pts[j].g], n - 1) \div n,
            SumTo([j \in DOMAIN pts |-> pts[j].b], n - 1) \div n)

\* C9: with K = 1 the final centroid is the truncated per-channel mean of all
\* the pixels.
C9_SingleClusterMean ==
    (pc = "remap" /\ quantized = "true" /\ K = 1) =>
        centroids[0] = TruncatedMean(points)

\* C10: the seeder sets every centroid it has sampled to the colour of some
\* point and never runs past K; when it is done all K centroids are colours
\* of points.
C10_SeederPicksPoints ==
    /\ pc = "seeding" =>
          /\ i <= K
          /\ \A c \in 0 .. i - 1 : IsPointColour(centroids[c], points)
    /\ (pc = "cluster" /\ iter = 0) =>
          \A c \in 0 .. K - 1 : IsPointColour(centroids[c], points)

\* a centroid has just been sampled with every weight, hence the total, 0,
\* from an image without the colour the centroid array is zeroed to
C10_Witness ==
    /\ pc = "seeding"
    /\ i >= 2
    /\ DOMAIN distances = DOMAIN points
    /\ \A j \in DOMAIN points : distances[j] = 0
    /\ ~IsPointColour(RGB(0, 0, 0), points)

====
